---------------------------- MODULE Spec2Model ----------------------------
(***************************************************************************)
(* Work-order lifecycle of the singleton enclave manager                   *)
(* (singleton/enclave_manager.py) over the key-value store, and the WPE    *)
(* signup handshake (wpe/wpe_enclave_manager.py, wpe/wpe_requester.py).    *)
(*                                                                         *)
(* Every kv_helper.set / kv_helper.remove is one step, so that a process   *)
(* crash can fall between any two store writes.  Payloads are abstracted   *)
(* to the properties the code branches on:                                 *)
(*   request  : "valid" (json.loads succeeds) or "bad" (ValueError)        *)
(*   response : "ok"      no "error" key, no "Response" key                *)
(*              "err"     {"error": {"code": c}}, c # PENDING              *)
(*              "pending" {"error": {"code": PENDING}}                     *)
(*              "failed"  {"Response": {"Status": FAILED}}                 *)
(*              "bad"     a stored string that is not JSON                 *)
(* A receipt update keeps its updateType and the response it attests; the  *)
(* signature is opaque.                                                    *)
(*                                                                         *)
(* Spec       : one manager on a store requesters filled: boot flow, then  *)
(*              the polling or the synchronous loop, with crashes          *)
(* SpecRestart: Spec, with every exit followed by a new start              *)
(* SpecBoot   : the boot flow alone, started on any store                  *)
(* SpecLoop   : the two loops after a clean boot, the process never killed *)
(* SpecStore  : SpecLoop's steps on a store whose operations may raise     *)
(* SpecRace   : two managers polling one store                             *)
(* SpecSignup : _create_signup_data of the WPE manager, and the requests   *)
(*              of WPERequester to the KME                                 *)
(***************************************************************************)
EXTENDS Naturals, Sequences, FiniteSets, TLC

None == "None"

\* work-order ids known to the store
Ids == {"wo1", "wo2"}

\* number of process crashes (kill at an arbitrary point) explored
MaxCrashes == 1

ReqKinds  == {"valid", "bad"}
ExecKinds == {"ok", "err", "pending", "failed"}
RespKinds == ExecKinds \cup {"bad"}

\* hash of this manager's enclave id, and an entry left by an earlier run
SelfWorker  == "self"
StaleWorker == "stale"

VARIABLES
    \* ---- QueueStore tables
    workers,        \* "workers": set of published worker ids
    requests,       \* "wo-requests": id -> None | request kind
    scheduled,      \* "wo-scheduled": set of ids
    processing,     \* "wo-processing": set of ids
    responses,      \* "wo-responses": id -> None | response kind
    processed,      \* "wo-processed": id -> None | "SUCCESS" | "FAILED"
    receipts,       \* "wo-receipts": set of ids that have a receipt
    updates,        \* "wo-receipt-updates": id -> sequence (<<>> = no entry)
    \* ---- the manager process
    sync,           \* config sync_workload_execution == 1
    pc,             \* position of the process
    exc,            \* why the process is down: "none", "crash" or an exception
    todo,           \* rest of the list a for-loop iterates over
    cur,            \* wo_id / wo of the running loop body
    wo_json_req,    \* local of process_work_order_by_id
    wo_resp,        \* local of process_work_order_by_id
    ret,            \* value of the last return of process_work_order_by_id
    wo_json_resp,   \* local of manager_on_boot
    wo_processed,   \* local of manager_on_boot
    crashes,        \* crashes so far
    \* ---- history
    boots,          \* completed runs of manager_on_boot since the last start of the model
    snap,           \* the store when manager_on_boot last completed
    seed,           \* the store when manager_on_boot last started
    \* ---- WPE signup handshake
    hs,
    \* ---- a second manager process on the same store
    peer

store == <<workers, requests, scheduled, processing, responses, processed,
           receipts, updates>>
lifecycle == <<workers, requests, scheduled, processing, responses, processed,
               receipts, updates, sync, pc, exc, todo, cur, wo_json_req,
               wo_resp, ret, wo_json_resp, wo_processed, crashes, boots,
               snap, seed, peer>>
locals == <<todo, cur, wo_json_req, wo_resp, ret, wo_json_resp, wo_processed>>
vars == <<workers, requests, scheduled, processing, responses, processed,
          receipts, updates, sync, pc, exc, todo, cur, wo_json_req, wo_resp,
          ret, wo_json_resp, wo_processed, crashes, boots, snap, seed, hs, peer>>

\* all orders in which a lookup may list the keys of a table
RECURSIVE Perms(_)
Perms(S) ==
    IF S = {} THEN {<<>>}
    ELSE UNION {{<<x>> \o p : p \in Perms(S \ {x})} : x \in S}


\* ------------------------------------------------------------------------
\* Pure helpers
\* ------------------------------------------------------------------------

\* validate_request: json.loads(wo_request) succeeds
validate_request(wo_request) == wo_request = "valid"

\* "error" in wo_json_resp: the key of the parsed response, and equally the
\* text of its JSON string
has_error(resp) == resp \in {"err", "pending"}

\* wo_json_resp["error"]["code"] != WorkOrderStatus.PENDING.value
error_not_pending(resp) == resp # "pending"

\* "Response" in wo_resp and wo_resp["Response"]["Status"] == FAILED
is_failed(resp) == resp = "failed"

\* mutant: every error response is FAILED, the pending code included
update_type_any_error(resp) ==
    IF has_error(resp) THEN "FAILED" ELSE "PROCESSED"

\* the updateType __update_receipt gives a parsed response
update_type(resp) ==
    IF has_error(resp) /\ error_not_pending(resp) THEN "FAILED" ELSE "PROCESSED"

\* mutant: the COMPLETED check of lines 330-336 is missing
update_receipt_no_freeze(wo_id, resp) ==
    IF wo_id \in receipts
    THEN [updates EXCEPT ![wo_id] =
            Append(updates[wo_id],
                   [updateType |-> update_type(resp), data |-> resp])]
    ELSE updates

\* mutant: the new update replaces the stored list instead of extending it
update_receipt_overwrite(wo_id, resp) ==
    IF wo_id \in receipts
    THEN LET wo_receipt == [updateType |-> update_type(resp), data |-> resp]
             updated_receipt == updates[wo_id]
         IN  IF /\ updated_receipt # <<>>
                /\ updated_receipt[Len(updated_receipt)].updateType = "COMPLETED"
             THEN updates
             ELSE [updates EXCEPT ![wo_id] = <<wo_receipt>>]
    ELSE updates

\* mutant: the receipt lookup of lines 301-302 does not gate the update
update_receipt_without_receipt(wo_id, resp) ==
    LET wo_receipt == [updateType |-> update_type(resp), data |-> resp]
        updated_receipt == updates[wo_id]
    IN  IF /\ updated_receipt # <<>>
           /\ updated_receipt[Len(updated_receipt)].updateType = "COMPLETED"
        THEN updates
        ELSE [updates EXCEPT ![wo_id] = Append(updated_receipt, wo_receipt)]

\* __update_receipt(kv_helper, wo_id, wo_json_resp) for a parsed response:
\* the wo-receipt-updates table afterwards
update_receipt(wo_id, resp) ==
    IF wo_id \in receipts
    THEN LET wo_receipt == [updateType |-> update_type(resp), data |-> resp]
             updated_receipt == updates[wo_id]
         IN  IF /\ updated_receipt # <<>>
                /\ updated_receipt[Len(updated_receipt)].updateType = "COMPLETED"
             THEN updates
             ELSE [updates EXCEPT ![wo_id] = Append(updated_receipt, wo_receipt)]
    ELSE updates

\* manager_on_boot hands __update_receipt the response as a str: when the
\* text contains "error", wo_json_resp["error"] is a str index by a str and
\* raises TypeError
update_receipt_raises(resp_str) == has_error(resp_str)

NoLocals ==
    /\ todo' = <<>>
    /\ cur' = None
    /\ wo_json_req' = None
    /\ wo_resp' = None
    /\ ret' = None
    /\ wo_json_resp' = None
    /\ wo_processed' = None

\* an uncaught exception reaches start_enclave_manager, which calls exit(1)
\* (cur keeps the id the dead process was working on)
Raise(e) ==
    /\ pc' = "exited"
    /\ exc' = e
    /\ boots' = 0
    /\ todo' = <<>>
    /\ wo_json_req' = None
    /\ wo_resp' = None
    /\ ret' = None
    /\ wo_json_resp' = None
    /\ wo_processed' = None
    /\ UNCHANGED cur

\* ------------------------------------------------------------------------
\* Initial states: the manager starts on a store that requesters filled.
\* Each id is unknown to the store, or scheduled with or without a stored
\* request, with or without a receipt, whose updates are none yet or were
\* closed by a COMPLETED update.
\* ------------------------------------------------------------------------
Completed == <<[updateType |-> "COMPLETED", data |-> "ok"]>>

TypeOK ==
    /\ workers \subseteq {SelfWorker, StaleWorker}
    /\ requests \in [Ids -> ReqKinds \cup {None}]
    /\ scheduled \subseteq Ids
    /\ processing \subseteq Ids
    /\ responses \in [Ids -> RespKinds \cup {None}]
    /\ processed \in [Ids -> {None, "SUCCESS", "FAILED"}]
    /\ receipts \subseteq Ids
    /\ sync \in BOOLEAN
    /\ crashes \in 0..MaxCrashes

InitManager ==
    /\ sync \in BOOLEAN
    /\ pc = "boot"
    /\ exc = "none"
    /\ todo = <<>>
    /\ cur = None
    /\ wo_json_req = None
    /\ wo_resp = None
    /\ ret = None
    /\ wo_json_resp = None
    /\ wo_processed = None
    /\ crashes = 0
    /\ boots = 0
    /\ snap = None
    /\ seed = store
    /\ hs = None
    /\ peer = None

Init ==
    /\ workers = {}
    /\ scheduled \in SUBSET Ids
    /\ requests \in [Ids -> ReqKinds \cup {None}]
    /\ \A id \in Ids \ scheduled : requests[id] = None
    /\ processing = {}
    /\ responses = [id \in Ids |-> None]
    /\ processed = [id \in Ids |-> None]
    /\ receipts \in SUBSET scheduled
    /\ updates \in [Ids -> {<<>>, Completed}]
    /\ \A id \in Ids \ receipts : updates[id] = <<>>
    /\ InitManager

\* ------------------------------------------------------------------------
\* process_work_order_by_id, one store write per step
\* ------------------------------------------------------------------------

\* line 217: kv_helper.set("wo-processing", wo_id, PROCESSING)
by_id_set_processing ==
    /\ pc = "p_claim"
    /\ processing' = processing \cup {cur}
    /\ pc' = "p_read"
    /\ UNCHANGED <<workers, requests, scheduled, responses, processed,
                   receipts, updates, sync, exc, locals, crashes, boots,
                   snap, seed, hs, peer>>

\* lines 221-237: read wo-requests; absent: go and drop the marker;
\* present: set wo-processing once more
by_id_read_request ==
    /\ pc = "p_read"
    /\ wo_json_req' = requests[cur]
    /\ IF requests[cur] = None
       THEN pc' = "p_absent" /\ UNCHANGED processing
       ELSE pc' = "p_unsched" /\ processing' = processing \cup {cur}
    /\ UNCHANGED <<workers, requests, scheduled, responses, processed,
                   receipts, updates, sync, exc, todo, cur, wo_resp, ret,
                   wo_json_resp, wo_processed, crashes, boots, snap, seed, hs, peer>>

\* mutant: the abort takes the id out of wo-scheduled as well
by_id_absent_unscheduled ==
    /\ pc = "p_absent"
    /\ processing' = processing \ {cur}
    /\ scheduled' = scheduled \ {cur}
    /\ ret' = None
    /\ pc' = "p_ret"
    /\ UNCHANGED <<workers, requests, responses, processed,
                   receipts, updates, sync, exc, todo, cur, wo_json_req,
                   wo_resp, wo_json_resp, wo_processed, crashes, boots,
                   snap, seed, hs, peer>>

\* lines 225-226: kv_helper.remove("wo-processing", wo_id); return
by_id_absent ==
    /\ pc = "p_absent"
    /\ processing' = processing \ {cur}
    /\ ret' = None
    /\ pc' = "p_ret"
    /\ UNCHANGED <<workers, requests, scheduled, responses, processed,
                   receipts, updates, sync, exc, todo, cur, wo_json_req,
                   wo_resp, wo_json_resp, wo_processed, crashes, boots,
                   snap, seed, hs, peer>>

\* line 241: kv_helper.remove("wo-scheduled", wo_id)
by_id_remove_scheduled ==
    /\ pc = "p_unsched"
    /\ scheduled' = scheduled \ {cur}
    /\ pc' = "p_validate"
    /\ UNCHANGED <<workers, requests, processing, responses, processed,
                   receipts, updates, sync, exc, locals, crashes, boots,
                   snap, seed, hs, peer>>

\* lines 244-257: validate_request; the failure branch assigns to
\* wo_response["Response"], a name bound nowhere: NameError, before any of
\* the writes of lines 253-256
by_id_validate ==
    /\ pc = "p_validate"
    /\ IF validate_request(wo_json_req)
       THEN /\ pc' = "p_exec"
            /\ UNCHANGED <<exc, locals, boots>>
       ELSE Raise("NameError")
    /\ UNCHANGED <<store, sync, crashes, snap, seed, hs, peer>>

\* lines 262-263: _execute_work_order, json.loads.  The enclave answers with
\* any response; when SgxWorkOrderRequest or execute() raises, the handler
\* of _execute_work_order reads the unbound wo_response and raises itself
by_id_execute ==
    /\ pc = "p_exec"
    /\ \/ \E r \in ExecKinds :
            /\ wo_resp' = r
            /\ pc' = "p_receipt"
            /\ UNCHANGED <<exc, todo, cur, wo_json_req, ret, wo_json_resp,
                           wo_processed, boots>>
       \/ Raise("UnboundLocalError")
    /\ UNCHANGED <<store, sync, crashes, snap, seed, hs, peer>>

\* line 266: self.__update_receipt(kv_helper, wo_id, wo_resp)
by_id_update_receipt ==
    /\ pc = "p_receipt"
    /\ updates' = update_receipt(cur, wo_resp)
    /\ pc' = "p_processed"
    /\ UNCHANGED <<workers, requests, scheduled, processing, responses,
                   processed, receipts, sync, exc, locals, crashes, boots,
                   snap, seed, hs, peer>>

\* mutant: the status write is missing
by_id_set_processed_skipped ==
    /\ pc = "p_processed"
    /\ pc' = "p_response"
    /\ UNCHANGED <<store, sync, exc, locals, crashes, boots, snap, seed, hs, peer>>

\* lines 268-272 and 279: wo-processed := FAILED or SUCCESS
by_id_set_processed ==
    /\ pc = "p_processed"
    /\ processed' = [processed EXCEPT
                        ![cur] = IF is_failed(wo_resp) THEN "FAILED" ELSE "SUCCESS"]
    /\ pc' = "p_response"
    /\ UNCHANGED <<workers, requests, scheduled, processing, responses,
                   receipts, updates, sync, exc, locals, crashes, boots,
                   snap, seed, hs, peer>>

\* lines 273 and 283: kv_helper.set("wo-responses", wo_id, wo_json_resp)
by_id_set_response ==
    /\ pc = "p_response"
    /\ responses' = [responses EXCEPT ![cur] = wo_resp]
    /\ pc' = "p_remove"
    /\ UNCHANGED <<workers, requests, scheduled, processing, processed,
                   receipts, updates, sync, exc, locals, crashes, boots,
                   snap, seed, hs, peer>>

\* mutant: the response is returned after a failure too
by_id_remove_processing_returns ==
    /\ pc = "p_remove"
    /\ processing' = processing \ {cur}
    /\ ret' = wo_resp
    /\ pc' = "p_ret"
    /\ UNCHANGED <<workers, requests, scheduled, responses, processed,
                   receipts, updates, sync, exc, todo, cur, wo_json_req,
                   wo_resp, wo_json_resp, wo_processed, crashes, boots,
                   snap, seed, hs, peer>>

\* mutant: the marker stays in wo-processing when the function returns
by_id_remove_processing_kept ==
    /\ pc = "p_remove"
    /\ ret' = IF is_failed(wo_resp) THEN None ELSE wo_resp
    /\ pc' = "p_ret"
    /\ UNCHANGED <<store, sync, exc, todo, cur, wo_json_req, wo_resp,
                   wo_json_resp, wo_processed, crashes, boots, snap, seed,
                   hs, peer>>

\* lines 274-275 and 287-288: drop the marker; return None after a failure,
\* the response otherwise
by_id_remove_processing ==
    /\ pc = "p_remove"
    /\ processing' = processing \ {cur}
    /\ ret' = IF is_failed(wo_resp) THEN None ELSE wo_resp
    /\ pc' = "p_ret"
    /\ UNCHANGED <<workers, requests, scheduled, responses, processed,
                   receipts, updates, sync, exc, todo, cur, wo_json_req,
                   wo_resp, wo_json_resp, wo_processed, crashes, boots,
                   snap, seed, hs, peer>>

process_work_order_by_id ==
    \/ by_id_set_processing
    \/ by_id_read_request
    \/ by_id_absent
    \/ by_id_remove_scheduled
    \/ by_id_validate
    \/ by_id_execute
    \/ by_id_update_receipt
    \/ by_id_set_processed
    \/ by_id_set_response
    \/ by_id_remove_processing


\* ------------------------------------------------------------------------
\* The two driving loops of start_enclave_manager
\* ------------------------------------------------------------------------

\* process_work_orders, lines 193-204: list wo-scheduled; an empty list ends
\* the sweep at once
process_work_orders ==
    /\ pc = "idle"
    /\ ~sync
    /\ scheduled # {}
    /\ todo' \in Perms(scheduled)
    /\ pc' = "p_loop"
    /\ boots' = 0
    /\ UNCHANGED <<store, sync, exc, cur, wo_json_req, wo_resp, ret,
                   wo_json_resp, wo_processed, crashes, snap, seed, hs, peer>>

\* process_work_orders, lines 204-205: the next wo_id of the list
sweep_next ==
    /\ pc \in {"p_loop", "p_ret"}
    /\ ~sync
    /\ todo # <<>>
    /\ cur' = Head(todo)
    /\ todo' = Tail(todo)
    /\ wo_json_req' = None
    /\ wo_resp' = None
    /\ ret' = None
    /\ pc' = "p_claim"
    /\ UNCHANGED <<store, sync, exc, wo_json_resp, wo_processed, crashes,
                   boots, snap, seed, hs, peer>>

\* the list is exhausted (polling), or the reply is sent (synchronous): the
\* while-loop of start_enclave_manager sleeps or waits for the next request
loop_done ==
    /\ \/ pc = "p_ret" /\ todo = <<>>
       \/ pc = "s_ret"
    /\ pc' = "idle"
    /\ NoLocals
    /\ UNCHANGED <<store, sync, exc, crashes, boots, snap, seed, hs, peer>>

\* process_work_order_sync, lines 169-185, on a received id: only the first
\* id of the listed wo-scheduled keys is looked at
process_work_order_sync ==
    /\ pc = "idle"
    /\ sync
    /\ \E process_wo_id \in Ids, list_of_workorders \in Perms(scheduled) :
          IF list_of_workorders # <<>> /\ Head(list_of_workorders) = process_wo_id
          THEN /\ cur' = process_wo_id
               /\ pc' = "p_claim"
               /\ ret' = None
          ELSE /\ cur' = process_wo_id
               /\ pc' = "s_ret"
               /\ ret' = None
    /\ boots' = 0
    /\ UNCHANGED <<store, sync, exc, todo, wo_json_req, wo_resp,
                   wo_json_resp, wo_processed, crashes, snap, seed, hs, peer>>

\* ------------------------------------------------------------------------
\* manager_on_boot, one store write per step
\* ------------------------------------------------------------------------

\* lines 82-90: remove every listed entry of the workers table
boot_remove_worker ==
    /\ pc = "boot"
    /\ \E worker \in workers : workers' = workers \ {worker}
    /\ UNCHANGED <<requests, scheduled, processing, responses, processed,
                   receipts, updates, sync, pc, exc, locals, crashes, boots,
                   snap, seed, hs, peer>>

\* mutant: the worker is published without the cleanup of lines 82-90
boot_set_worker_no_cleanup ==
    /\ pc = "boot"
    /\ workers' = workers \cup {SelfWorker}
    /\ pc' = "b_lookup"
    /\ UNCHANGED <<requests, scheduled, processing, responses, processed,
                   receipts, updates, sync, exc, locals, crashes, boots,
                   snap, seed, hs, peer>>

\* lines 92-100: kv_helper.set("workers", worker_id, worker_info)
boot_set_worker ==
    /\ pc = "boot"
    /\ workers = {}
    /\ workers' = {SelfWorker}
    /\ pc' = "b_lookup"
    /\ UNCHANGED <<requests, scheduled, processing, responses, processed,
                   receipts, updates, sync, exc, locals, crashes, boots,
                   snap, seed, hs, peer>>

\* manager_on_boot returns: the boot flow is complete
BootReturn ==
    /\ pc' = "idle"
    /\ boots' = IF boots < 2 THEN boots + 1 ELSE 2
    /\ snap' = IF boots = 0 THEN store ELSE snap
    /\ NoLocals

\* lines 103-107: list wo-processing; empty: return
boot_lookup_processing ==
    /\ pc = "b_lookup"
    /\ IF processing = {}
       THEN BootReturn
       ELSE /\ todo' \in Perms(processing)
            /\ pc' = "b_next"
            /\ UNCHANGED <<cur, wo_json_req, wo_resp, ret, wo_json_resp,
                           wo_processed, boots, snap>>
    /\ UNCHANGED <<store, sync, exc, crashes, seed, hs, peer>>

\* line 108, list exhausted: return
boot_done ==
    /\ pc = "b_next"
    /\ todo = <<>>
    /\ BootReturn
    /\ UNCHANGED <<store, sync, exc, crashes, seed, hs, peer>>

\* mutant: a missing response is taken for a failed one
boot_next_wo_no_retry ==
    /\ pc = "b_next"
    /\ todo # <<>>
    /\ LET wo == Head(todo) IN
         /\ cur' = wo
         /\ todo' = Tail(todo)
         /\ wo_json_resp' = responses[wo]
         /\ wo_processed' = processed[wo]
         /\ pc' = IF responses[wo] = None \/ responses[wo] = "bad"
                        \/ is_failed(responses[wo])
                  THEN "b_failed"
                  ELSE IF wo \in receipts THEN "b_receipt"
                  ELSE "b_success"
    /\ UNCHANGED <<store, sync, exc, wo_json_req, wo_resp, ret, crashes,
                   boots, snap, seed, hs, peer>>

\* lines 108-148: the next wo; read its response and its status, and branch
boot_next_wo ==
    /\ pc = "b_next"
    /\ todo # <<>>
    /\ LET wo == Head(todo) IN
         /\ cur' = wo
         /\ todo' = Tail(todo)
         /\ wo_json_resp' = responses[wo]
         /\ wo_processed' = processed[wo]
         /\ pc' = IF responses[wo] = None THEN "b_resched"
                  ELSE IF responses[wo] = "bad" \/ is_failed(responses[wo])
                       THEN "b_failed"
                  ELSE IF wo \in receipts THEN "b_receipt"
                  ELSE "b_success"
    /\ UNCHANGED <<store, sync, exc, wo_json_req, wo_resp, ret, crashes,
                   boots, snap, seed, hs, peer>>

\* mutant: the id is not written back to wo-scheduled
boot_reschedule_dropped ==
    /\ pc = "b_resched"
    /\ pc' = "b_remove"
    /\ UNCHANGED <<store, sync, exc, locals, crashes, boots, snap, seed, hs, peer>>

\* lines 152-153: kv_helper.set("wo-scheduled", wo, SCHEDULED)
boot_reschedule ==
    /\ pc = "b_resched"
    /\ scheduled' = scheduled \cup {cur}
    /\ pc' = "b_remove"
    /\ UNCHANGED <<workers, requests, processing, responses, processed,
                   receipts, updates, sync, exc, locals, crashes, boots,
                   snap, seed, hs, peer>>

\* mutant: FAILED is written over a status that is already there
boot_mark_failed_overwrite ==
    /\ pc = "b_failed"
    /\ processed' = [processed EXCEPT ![cur] = "FAILED"]
    /\ pc' = "b_remove"
    /\ UNCHANGED <<workers, requests, scheduled, processing, responses,
                   receipts, updates, sync, exc, locals, crashes, boots,
                   snap, seed, hs, peer>>

\* lines 120-122 and 129-131: wo-processed := FAILED unless a status is there
boot_mark_failed ==
    /\ pc = "b_failed"
    /\ processed' = IF wo_processed = None
                    THEN [processed EXCEPT ![cur] = "FAILED"]
                    ELSE processed
    /\ pc' = "b_remove"
    /\ UNCHANGED <<workers, requests, scheduled, processing, responses,
                   receipts, updates, sync, exc, locals, crashes, boots,
                   snap, seed, hs, peer>>

\* lines 137-143: self.__update_receipt(kv_helper, wo, wo_json_resp), the
\* response still a str
boot_update_receipt ==
    /\ pc = "b_receipt"
    /\ IF update_receipt_raises(wo_json_resp)
       THEN /\ Raise("TypeError")
            /\ UNCHANGED updates
       ELSE /\ updates' = update_receipt(cur, wo_json_resp)
            /\ pc' = "b_success"
            /\ UNCHANGED <<exc, locals, boots>>
    /\ UNCHANGED <<workers, requests, scheduled, processing, responses,
                   processed, receipts, sync, crashes, snap, seed, hs, peer>>

\* lines 145-147: wo-processed := SUCCESS unless a status is there
boot_mark_success ==
    /\ pc = "b_success"
    /\ processed' = IF wo_processed = None
                    THEN [processed EXCEPT ![cur] = "SUCCESS"]
                    ELSE processed
    /\ pc' = "b_remove"
    /\ UNCHANGED <<workers, requests, scheduled, processing, responses,
                   receipts, updates, sync, exc, locals, crashes, boots,
                   snap, seed, hs, peer>>

\* mutant: the marker stays in wo-processing
boot_remove_processing_kept ==
    /\ pc = "b_remove"
    /\ pc' = "b_next"
    /\ UNCHANGED <<store, sync, exc, locals, crashes, boots, snap, seed, hs, peer>>

\* mutant: the marker of an id that was put back into wo-scheduled stays
boot_remove_processing_unless_rescheduled ==
    /\ pc = "b_remove"
    /\ processing' = IF wo_json_resp = None THEN processing
                     ELSE processing \ {cur}
    /\ pc' = "b_next"
    /\ UNCHANGED <<workers, requests, scheduled, responses, processed,
                   receipts, updates, sync, exc, locals, crashes, boots,
                   snap, seed, hs, peer>>

\* lines 123, 134 and 157: kv_helper.remove("wo-processing", wo)
boot_remove_processing ==
    /\ pc = "b_remove"
    /\ processing' = processing \ {cur}
    /\ pc' = "b_next"
    /\ UNCHANGED <<workers, requests, scheduled, responses, processed,
                   receipts, updates, sync, exc, locals, crashes, boots,
                   snap, seed, hs, peer>>

manager_on_boot ==
    \/ boot_remove_worker
    \/ boot_set_worker
    \/ boot_lookup_processing
    \/ boot_done
    \/ boot_next_wo
    \/ boot_reschedule
    \/ boot_mark_failed
    \/ boot_update_receipt
    \/ boot_mark_success
    \/ boot_remove_processing

\* ------------------------------------------------------------------------
\* The process dies at any point, and is started again
\* ------------------------------------------------------------------------
Crash ==
    /\ pc # "exited"
    /\ crashes < MaxCrashes
    /\ crashes' = crashes + 1
    /\ pc' = "exited"
    /\ exc' = "crash"
    /\ boots' = IF pc = "idle" THEN boots ELSE 0
    /\ NoLocals
    /\ UNCHANGED <<store, sync, snap, seed, hs, peer>>

\* start_enclave_manager, lines 498-500: a new process begins with the boot
\* flow
Restart ==
    /\ pc = "exited"
    /\ pc' = "boot"
    /\ exc' = "none"
    /\ seed' = store
    /\ UNCHANGED <<store, sync, locals, crashes, boots, snap, hs, peer>>

Next ==
    \/ process_work_orders
    \/ sweep_next
    \/ loop_done
    \/ process_work_order_sync
    \/ process_work_order_by_id
    \/ manager_on_boot
    \/ Crash
    \/ Restart

Spec == Init /\ [][Next]_vars


\* ------------------------------------------------------------------------
\* The boot flow alone, started on any store: what an earlier run, or any
\* other writer to the store, may have left.  Ids outside wo-processing,
\* which manager_on_boot never reads, are fresh or already answered.
\* ------------------------------------------------------------------------
InitBoot ==
    /\ workers \in {{}, {StaleWorker}, {StaleWorker, SelfWorker}}
    /\ requests = [id \in Ids |-> "valid"]
    /\ scheduled \in SUBSET Ids
    /\ processing \in SUBSET Ids
    /\ responses \in [Ids -> RespKinds \cup {None}]
    /\ processed \in [Ids -> {None, "SUCCESS", "FAILED"}]
    /\ \A id \in Ids \ processing :
          \/ responses[id] = None /\ processed[id] = None
          \/ responses[id] = "ok" /\ processed[id] = "SUCCESS"
    /\ receipts \in SUBSET Ids
    /\ updates \in [Ids -> {<<>>, Completed}]
    /\ \A id \in Ids \ receipts : updates[id] = <<>>
    /\ InitManager
    /\ sync = FALSE

NextBoot ==
    \/ manager_on_boot
    \/ Crash
    \/ Restart

SpecBoot == InitBoot /\ [][NextBoot]_vars

\* manager_on_boot as a function of the store it starts on: the tables when
\* an uninterrupted run returns (lines 82-157), None when the run raises
\* (line 141 on a response with "error" in its text)
manager_on_boot_result(s) ==
    LET s_processing == s[4]
        s_responses  == s[5]
        s_processed  == s[6]
        s_receipts   == s[7]
        s_updates    == s[8]
        answered(wo) == /\ wo \in s_processing
                        /\ s_responses[wo] # None
        failed(wo)   == s_responses[wo] = "bad" \/ is_failed(s_responses[wo])
        receipted(wo) == answered(wo) /\ ~failed(wo) /\ wo \in s_receipts
    IN  IF \E wo \in Ids : receipted(wo) /\ update_receipt_raises(s_responses[wo])
        THEN None
        ELSE << {SelfWorker},
                s[2],
                s[3] \cup {wo \in s_processing : s_responses[wo] = None},
                {},
                s_responses,
                [wo \in Ids |->
                    IF answered(wo) /\ s_processed[wo] = None
                    THEN IF failed(wo) THEN "FAILED" ELSE "SUCCESS"
                    ELSE s_processed[wo]],
                s_receipts,
                [wo \in Ids |->
                    IF receipted(wo)
                          /\ ~(/\ s_updates[wo] # <<>>
                               /\ s_updates[wo][Len(s_updates[wo])].updateType
                                     = "COMPLETED")
                    THEN Append(s_updates[wo],
                                [updateType |-> update_type(s_responses[wo]),
                                 data |-> s_responses[wo]])
                    ELSE s_updates[wo]] >>

\* every run of manager_on_boot that returns leaves the store
\* manager_on_boot_result gives for the store the run started on
BootResultAgrees ==
    (pc = "idle" /\ boots >= 1) => store = manager_on_boot_result(seed)


\* ------------------------------------------------------------------------
\* The steady-state loops alone: manager_on_boot has returned on a store
\* that requesters filled, and the process is not killed.  SpecLoop: the
\* while-loops of start_enclave_manager keep running as long as the process
\* lives (weak fairness of its steps).
\* ------------------------------------------------------------------------
InitLoop ==
    /\ workers = {SelfWorker}
    /\ scheduled \in SUBSET Ids
    /\ requests \in [Ids -> ReqKinds \cup {None}]
    /\ \A id \in Ids \ scheduled : requests[id] = None
    /\ processing = {}
    /\ responses = [id \in Ids |-> None]
    /\ processed = [id \in Ids |-> None]
    /\ receipts \in SUBSET scheduled
    /\ updates \in [Ids -> {<<>>, Completed}]
    /\ \A id \in Ids \ receipts : updates[id] = <<>>
    /\ sync \in BOOLEAN
    /\ pc = "idle"
    /\ exc = "none"
    /\ todo = <<>>
    /\ cur = None
    /\ wo_json_req = None
    /\ wo_resp = None
    /\ ret = None
    /\ wo_json_resp = None
    /\ wo_processed = None
    /\ crashes = 0
    /\ boots = 0
    /\ snap = None
    /\ seed = store
    /\ hs = None
    /\ peer = None

NextLoop ==
    \/ process_work_orders
    \/ sweep_next
    \/ loop_done
    \/ process_work_order_sync
    \/ process_work_order_by_id

SpecLoop == InitLoop /\ [][NextLoop]_vars /\ WF_vars(NextLoop)

\* A kv_helper operation of process_work_order_by_id raises.  The set of
\* line 217 and the get of line 221 are inside the try of lines 216-232,
\* whose handler removes the marker and returns; the remove of the handler
\* (line 231) and every later operation (236, 241, 271-287, and 301-341 in
\* __update_receipt) are inside no try
by_id_store_error ==
    /\ \/ /\ pc \in {"p_claim", "p_read"}
          /\ pc' = "p_absent"
          /\ UNCHANGED <<exc, locals, boots>>
       \/ /\ pc \in {"p_read", "p_absent", "p_unsched", "p_receipt",
                      "p_processed", "p_response", "p_remove"}
          /\ Raise("StoreError")
    /\ UNCHANGED <<store, sync, crashes, snap, seed, hs, peer>>

NextStore ==
    \/ NextLoop
    \/ by_id_store_error

SpecStore == InitLoop /\ [][NextStore]_vars


\* ------------------------------------------------------------------------
\* Two manager processes polling one store.  The first is the manager
\* above; peer holds the position and the locals of the second, which runs
\* the same process_work_orders / process_work_order_by_id.  Both have
\* returned from manager_on_boot; neither is killed.
\* ------------------------------------------------------------------------
PeerIdle ==
    [pc |-> "idle", todo |-> <<>>, cur |-> None, wo_json_req |-> None,
     wo_resp |-> None, ret |-> None]

\* what a step of the peer leaves alone besides the store tables
manager == <<sync, pc, exc, todo, cur, wo_json_req, wo_resp, ret,
             wo_json_resp, wo_processed, crashes, boots, snap, seed, hs>>

\* lines 193-204: list wo-scheduled
peer_process_work_orders ==
    /\ peer.pc = "idle"
    /\ scheduled # {}
    /\ \E list_of_workorders \in Perms(scheduled) :
          peer' = [peer EXCEPT !.todo = list_of_workorders, !.pc = "p_loop"]
    /\ UNCHANGED <<store, manager>>

\* lines 204-205: the next wo_id of the list
peer_sweep_next ==
    /\ peer.pc \in {"p_loop", "p_ret"}
    /\ peer.todo # <<>>
    /\ peer' = [peer EXCEPT !.cur = Head(peer.todo), !.todo = Tail(peer.todo),
                            !.wo_json_req = None, !.wo_resp = None,
                            !.ret = None, !.pc = "p_claim"]
    /\ UNCHANGED <<store, manager>>

\* the list is exhausted: sleep
peer_loop_done ==
    /\ peer.pc = "p_ret"
    /\ peer.todo = <<>>
    /\ peer' = PeerIdle
    /\ UNCHANGED <<store, manager>>

\* mutant: the id is claimed by a compare-and-swap on the two tables; the
\* loser returns
peer_set_processing_cas ==
    /\ peer.pc = "p_claim"
    /\ IF peer.cur \in scheduled /\ peer.cur \notin processing
       THEN /\ processing' = processing \cup {peer.cur}
            /\ peer' = [peer EXCEPT !.pc = "p_read"]
       ELSE /\ peer' = [peer EXCEPT !.pc = "p_ret"]
            /\ UNCHANGED processing
    /\ UNCHANGED <<workers, requests, scheduled, responses, processed,
                   receipts, updates, manager>>

\* line 217: kv_helper.set("wo-processing", wo_id, PROCESSING)
peer_set_processing ==
    /\ peer.pc = "p_claim"
    /\ processing' = processing \cup {peer.cur}
    /\ peer' = [peer EXCEPT !.pc = "p_read"]
    /\ UNCHANGED <<workers, requests, scheduled, responses, processed,
                   receipts, updates, manager>>

\* lines 221-237
peer_read_request ==
    /\ peer.pc = "p_read"
    /\ IF requests[peer.cur] = None
       THEN /\ peer' = [peer EXCEPT !.wo_json_req = None, !.pc = "p_absent"]
            /\ UNCHANGED processing
       ELSE /\ peer' = [peer EXCEPT !.wo_json_req = requests[peer.cur],
                                    !.pc = "p_unsched"]
            /\ processing' = processing \cup {peer.cur}
    /\ UNCHANGED <<workers, requests, scheduled, responses, processed,
                   receipts, updates, manager>>

\* lines 225-226
peer_absent ==
    /\ peer.pc = "p_absent"
    /\ processing' = processing \ {peer.cur}
    /\ peer' = [peer EXCEPT !.ret = None, !.pc = "p_ret"]
    /\ UNCHANGED <<workers, requests, scheduled, responses, processed,
                   receipts, updates, manager>>

\* line 241
peer_remove_scheduled ==
    /\ peer.pc = "p_unsched"
    /\ scheduled' = scheduled \ {peer.cur}
    /\ peer' = [peer EXCEPT !.pc = "p_validate"]
    /\ UNCHANGED <<workers, requests, processing, responses, processed,
                   receipts, updates, manager>>

\* lines 244-257: NameError ends the peer process
peer_validate ==
    /\ peer.pc = "p_validate"
    /\ peer' = [peer EXCEPT !.pc = IF validate_request(peer.wo_json_req)
                                   THEN "p_exec" ELSE "exited"]
    /\ UNCHANGED <<store, manager>>

\* lines 262-263
peer_execute ==
    /\ peer.pc = "p_exec"
    /\ \/ \E r \in ExecKinds :
            peer' = [peer EXCEPT !.wo_resp = r, !.pc = "p_receipt"]
       \/ peer' = [peer EXCEPT !.pc = "exited"]
    /\ UNCHANGED <<store, manager>>

\* line 266
peer_update_receipt ==
    /\ peer.pc = "p_receipt"
    /\ updates' = update_receipt(peer.cur, peer.wo_resp)
    /\ peer' = [peer EXCEPT !.pc = "p_processed"]
    /\ UNCHANGED <<workers, requests, scheduled, processing, responses,
                   processed, receipts, manager>>

\* lines 268-272 and 279
peer_set_processed ==
    /\ peer.pc = "p_processed"
    /\ processed' = [processed EXCEPT
                        ![peer.cur] = IF is_failed(peer.wo_resp)
                                      THEN "FAILED" ELSE "SUCCESS"]
    /\ peer' = [peer EXCEPT !.pc = "p_response"]
    /\ UNCHANGED <<workers, requests, scheduled, processing, responses,
                   receipts, updates, manager>>

\* lines 273 and 283
peer_set_response ==
    /\ peer.pc = "p_response"
    /\ responses' = [responses EXCEPT ![peer.cur] = peer.wo_resp]
    /\ peer' = [peer EXCEPT !.pc = "p_remove"]
    /\ UNCHANGED <<workers, requests, scheduled, processing, processed,
                   receipts, updates, manager>>

\* lines 274-275 and 287-288
peer_remove_processing ==
    /\ peer.pc = "p_remove"
    /\ processing' = processing \ {peer.cur}
    /\ peer' = [peer EXCEPT !.ret = IF is_failed(peer.wo_resp) THEN None
                                    ELSE peer.wo_resp,
                            !.pc = "p_ret"]
    /\ UNCHANGED <<workers, requests, scheduled, responses, processed,
                   receipts, updates, manager>>

peer_manager ==
    \/ peer_process_work_orders
    \/ peer_sweep_next
    \/ peer_loop_done
    \/ peer_set_processing
    \/ peer_read_request
    \/ peer_absent
    \/ peer_remove_scheduled
    \/ peer_validate
    \/ peer_execute
    \/ peer_update_receipt
    \/ peer_set_processed
    \/ peer_set_response
    \/ peer_remove_processing

InitRace ==
    /\ workers = {SelfWorker}
    /\ scheduled \in SUBSET Ids
    /\ requests \in [Ids -> ReqKinds \cup {None}]
    /\ \A id \in Ids \ scheduled : requests[id] = None
    /\ processing = {}
    /\ responses = [id \in Ids |-> None]
    /\ processed = [id \in Ids |-> None]
    /\ receipts \in SUBSET scheduled
    /\ updates = [id \in Ids |-> <<>>]
    /\ sync = FALSE
    /\ pc = "idle"
    /\ exc = "none"
    /\ todo = <<>>
    /\ cur = None
    /\ wo_json_req = None
    /\ wo_resp = None
    /\ ret = None
    /\ wo_json_resp = None
    /\ wo_processed = None
    /\ crashes = 0
    /\ boots = 0
    /\ snap = None
    /\ seed = store
    /\ hs = None
    /\ peer = PeerIdle

NextRace ==
    \/ process_work_orders
    \/ sweep_next
    \/ loop_done
    \/ process_work_order_by_id
    \/ peer_manager

SpecRace == InitRace /\ [][NextRace]_vars


\* ------------------------------------------------------------------------
\* WPE signup: WorkOrderProcessorEnclaveManager._create_signup_data and
\* WPERequester.get_unique_verification_key.  The KME's answer, the outcome
\* of the signature check of the answer and the decrypted payload are
\* inputs; the enclave's VerifyUniqueIdSignature is truthful.
\* ------------------------------------------------------------------------
Nonces == {"n1", "n2"}
Keys   == {"k1", "k2", "k3"}

\* the signature the KME's unique id makes over a verification key
SigOf(k) == <<"sig", k>>
Sigs == {SigOf(k) : k \in Keys} \cup {<<"sig", "forged">>}

\* what _post_and_get_result hands back: a JSON-RPC result, an error object
\* (no "result" key), or no response object at all (the transport failed)
PostOutcomes == {"result", "error", "none"}

\* SignatureStatus values of verify_signature
SigStatuses == {"PASSED", "FAILED", "INVALID"}

\* decrypted_res[0]['data'].split(' '): the triple, or fewer fields
DataFields ==
    {<<"0", k, sg>> : k \in Keys, sg \in Sigs} \cup {<<"0">>, <<"0", "k1">>}

\* SignupInfoWPE.VerifyUniqueIdSignature: 0 when the signature is the unique
\* id's signature over the key
VerifyUniqueIdSignature(k, sg) == IF sg = SigOf(k) THEN 0 ELSE 1

\* requests one client sends to the KME, one after the other
MaxRequests == 2

\* crypto_utils.generate_key() and generate_iv(): the key and the IV of the
\* n-th call, new at every call
generate_key(n) == <<"key", n>>
generate_iv(n) == <<"iv", n>>

HsIdle ==
    [pc |-> "start", nonce |-> None, post |-> None, status |-> None,
     decrypted |-> FALSE, response |-> None, key |-> None, sig |-> None,
     verified |-> FALSE, result |-> None, created |-> FALSE, used |-> None, ret |-> None,
     exc |-> "none", reg_ret |-> None,
     session |-> None, dec_key |-> None, made |-> 0, sent |-> <<>>]

\* lines 63-71: the requester, the enclave info and a nonce from the enclave
signup_generate_nonce ==
    /\ hs.pc = "start"
    /\ \E n \in Nonces : hs' = [hs EXCEPT !.nonce = n, !.pc = "post"]
    /\ UNCHANGED lifecycle

\* wpe_requester.py lines 65-77: build the request and post it
uvk_post ==
    /\ hs.pc = "post"
    /\ LET session_key == generate_key(hs.made + 1)
           session_iv  == generate_iv(hs.made + 1)
       IN  \E r \in PostOutcomes :
              hs' = [hs EXCEPT !.session = <<session_key, session_iv>>,
                               !.made = hs.made + 1,
                               !.sent = Append(hs.sent, <<session_key, session_iv>>),
                               !.post = r, !.pc = "posted"]
    /\ UNCHANGED lifecycle

\* wpe_enclave_manager.py line 74 passes the nonce alone, and the method of
\* wpe/wpe_requester.py (line 49) wants an encryption key and a verifying
\* key as well: bound to that class, the call raises TypeError.  (The
\* manager imports the class from wpe_common, which may take the nonce alone:
\* uvk_post.)
uvk_missing_arguments ==
    /\ hs.pc = "post"
    /\ hs' = [hs EXCEPT !.exc = "TypeError", !.pc = "done"]
    /\ UNCHANGED lifecycle

\* wpe_requester.py lines 77-81 and 89-93: no result, or a result whose
\* signature check did not pass: return None.  Nothing catches a failed
\* transport: with no response object, line 79 tests "result" in None
uvk_verify_res_signature ==
    /\ hs.pc = "posted"
    /\ IF hs.post = "none"
       THEN hs' = [hs EXCEPT !.exc = "TypeError", !.pc = "done"]
       ELSE IF hs.post = "result"
       THEN \E st \in SigStatuses :
               hs' = [hs EXCEPT !.status = st,
                                !.pc = IF st = "PASSED" THEN "decrypt"
                                       ELSE "returned"]
       ELSE hs' = [hs EXCEPT !.pc = "returned"]
    /\ UNCHANGED lifecycle

\* wpe_requester.py lines 82-88: decrypt with the session key and return
\* the data field
uvk_decrypt ==
    /\ hs.pc = "decrypt"
    /\ \E d \in DataFields :
          hs' = [hs EXCEPT !.decrypted = TRUE, !.dec_key = hs.session,
                           !.response = d, !.pc = "returned"]
    /\ UNCHANGED lifecycle

\* lines 76-82: None ends the signup; else split the response at ' ' and
\* take fields 1 and 2
signup_split_response ==
    /\ hs.pc = "returned"
    /\ IF hs.response = None
       THEN hs' = [hs EXCEPT !.ret = None, !.pc = "done"]
       ELSE IF Len(hs.response) < 3
            THEN hs' = [hs EXCEPT !.exc = "IndexError", !.pc = "done"]
            ELSE hs' = [hs EXCEPT !.key = hs.response[2],
                                  !.sig = hs.response[3], !.pc = "verify"]
    /\ UNCHANGED lifecycle

\* mutant: the result of VerifyUniqueIdSignature is not looked at
signup_verify_unique_id_ignored ==
    /\ hs.pc = "verify"
    /\ hs' = [hs EXCEPT !.verified = TRUE,
                        !.result = VerifyUniqueIdSignature(hs.key, hs.sig),
                        !.ret = None,
                        !.pc = "create"]
    /\ UNCHANGED lifecycle

\* lines 85-90: VerifyUniqueIdSignature; non-zero ends the signup with None
signup_verify_unique_id ==
    /\ hs.pc = "verify"
    /\ LET result == VerifyUniqueIdSignature(hs.key, hs.sig) IN
         hs' = [hs EXCEPT !.verified = TRUE,
                          !.result = result,
                          !.ret = None,
                          !.pc = IF result # 0 THEN "done" ELSE "create"]
    /\ UNCHANGED lifecycle

\* lines 92-97: create_enclave_signup_data(self._unique_verification_key)
signup_create ==
    /\ hs.pc = "create"
    /\ hs' = [hs EXCEPT !.created = TRUE, !.used = hs.key,
                        !.ret = "signup_data", !.pc = "done"]
    /\ UNCHANGED lifecycle

\* mutant: the session key of the request before is kept and used again
reg_post_reused_key ==
    /\ hs.pc = "reg"
    /\ LET fresh == <<generate_key(hs.made + 1), generate_iv(hs.made + 1)>>
           session == IF hs.sent = <<>> THEN fresh ELSE hs.sent[Len(hs.sent)]
       IN  \E r \in PostOutcomes :
              hs' = [hs EXCEPT !.session = session,
                               !.made = hs.made + 1,
                               !.sent = Append(hs.sent, session),
                               !.post = r, !.pc = "reg_posted"]
    /\ UNCHANGED lifecycle

\* WPERequester.register_wo_processor, wpe_requester.py lines 109-121:
\* build the request with a fresh session key and post it
reg_post ==
    /\ hs.pc = "reg"
    /\ LET session_key == generate_key(hs.made + 1)
           session_iv  == generate_iv(hs.made + 1)
       IN  \E r \in PostOutcomes :
              hs' = [hs EXCEPT !.session = <<session_key, session_iv>>,
                               !.made = hs.made + 1,
                               !.sent = Append(hs.sent, <<session_key, session_iv>>),
                               !.post = r, !.pc = "reg_posted"]
    /\ UNCHANGED lifecycle

\* mutant: the response is decrypted whatever the signature check said
reg_verify_res_signature_open ==
    /\ hs.pc = "reg_posted"
    /\ IF hs.post = "none"
       THEN hs' = [hs EXCEPT !.exc = "TypeError", !.pc = "done"]
       ELSE IF hs.post = "result"
       THEN \E st \in SigStatuses :
               hs' = [hs EXCEPT !.status = st, !.pc = "reg_decrypt"]
       ELSE hs' = [hs EXCEPT !.reg_ret = None, !.pc = "done"]
    /\ UNCHANGED lifecycle

\* wpe_requester.py lines 121-125 and 129-133: as in
\* get_unique_verification_key
reg_verify_res_signature ==
    /\ hs.pc = "reg_posted"
    /\ IF hs.post = "none"
       THEN hs' = [hs EXCEPT !.exc = "TypeError", !.pc = "done"]
       ELSE IF hs.post = "result"
       THEN \E st \in SigStatuses :
               hs' = [hs EXCEPT !.status = st,
                                !.reg_ret = None,
                                !.pc = IF st = "PASSED" THEN "reg_decrypt"
                                       ELSE "done"]
       ELSE hs' = [hs EXCEPT !.reg_ret = None, !.pc = "done"]
    /\ UNCHANGED lifecycle

\* wpe_requester.py lines 126-128: decrypt with the session key and return
\* the whole result list
reg_decrypt ==
    /\ hs.pc = "reg_decrypt"
    /\ hs' = [hs EXCEPT !.decrypted = TRUE, !.dec_key = hs.session,
                        !.response = <<"registered">>,
                        !.reg_ret = <<"registered">>, !.pc = "done"]
    /\ UNCHANGED lifecycle

register_wo_processor ==
    \/ reg_post
    \/ reg_verify_res_signature
    \/ reg_decrypt

create_signup_data ==
    \/ signup_generate_nonce
    \/ uvk_post
    \/ uvk_missing_arguments
    \/ uvk_verify_res_signature
    \/ uvk_decrypt
    \/ signup_split_response
    \/ signup_verify_unique_id
    \/ signup_create

InitSignup ==
    /\ workers = {}
    /\ requests = [id \in Ids |-> None]
    /\ scheduled = {}
    /\ processing = {}
    /\ responses = [id \in Ids |-> None]
    /\ processed = [id \in Ids |-> None]
    /\ receipts = {}
    /\ updates = [id \in Ids |-> <<>>]
    /\ sync = FALSE
    /\ pc = "signup"
    /\ exc = "none"
    /\ todo = <<>>
    /\ cur = None
    /\ wo_json_req = None
    /\ wo_resp = None
    /\ ret = None
    /\ wo_json_resp = None
    /\ wo_processed = None
    /\ crashes = 0
    /\ boots = 0
    /\ snap = None
    /\ seed = None
    /\ hs \in {HsIdle, [HsIdle EXCEPT !.pc = "reg"]}
    /\ peer = None

\* the step has ended without an exception: the client goes on with
\* another request, on the same WPERequester object
client_next_request ==
    /\ hs.pc = "done"
    /\ hs.exc = "none"
    /\ Len(hs.sent) < MaxRequests
    /\ \E step \in {"start", "reg"} :
          hs' = [HsIdle EXCEPT !.pc = step, !.made = hs.made, !.sent = hs.sent]
    /\ UNCHANGED lifecycle

NextSignup ==
    \/ create_signup_data
    \/ register_wo_processor
    \/ client_next_request

SpecSignup == InitSignup /\ [][NextSignup]_vars


\* ------------------------------------------------------------------------
\* Properties of process_work_order_by_id
\* ------------------------------------------------------------------------

\* the invocation of process_work_order_by_id on id has ended: it returned,
\* or it raised
Returned(id) == pc = "p_ret" /\ cur = id
Ended(id) ==
    \/ Returned(id)
    \/ pc = "exited" /\ cur = id /\ exc \in {"NameError", "UnboundLocalError"}

Terminal == {"SUCCESS", "FAILED"}

\* C1: whenever process_work_order_by_id has ended on an id it claimed (an
\* id with a stored request), it has returned, wo-processing[id] is absent,
\* wo-processed[id] is SUCCESS or FAILED and wo-responses[id] holds the
\* response of that status.
C1_EveryPathEndsTerminal ==
    \A id \in Ids :
        (Ended(id) /\ requests[id] # None) =>
            /\ Returned(id)
            /\ id \notin processing
            /\ processed[id] \in Terminal
            /\ responses[id] # None
            /\ (processed[id] = "FAILED") <=> is_failed(responses[id])

\* C2: wo-scheduled[id] is removed only while wo-processing[id] is set, and
\* process_work_order_by_id removes wo-processing[id] of an id with a stored
\* request only after wo-processed[id] is written; hence an id that was
\* scheduled with a stored request is, in every state, in wo-scheduled, in
\* wo-processing or has a wo-processed entry.
NeverLost(id) ==
    requests[id] # None =>
        \/ id \in scheduled
        \/ id \in processing
        \/ processed[id] # None

OrderedWrites(id) ==
    /\ (id \in scheduled /\ id \notin scheduled') => id \in processing
    /\ (id \in processing /\ id \notin processing' /\ requests[id] # None
            /\ pc \in {"p_absent", "p_remove"})
         => processed[id] \in Terminal

C2_WriteOrdering ==
    /\ [](\A id \in Ids : NeverLost(id))
    /\ [][\A id \in Ids : OrderedWrites(id)]_vars

\* C2 witness: mid-flight, the id is out of wo-scheduled with no status yet,
\* and only the wo-processing marker holds it
C2_Witness ==
    /\ pc = "p_processed"
    /\ cur \notin scheduled
    /\ cur \in processing
    /\ processed[cur] = None


C7_MalformedRecordedFailed ==
    \A id \in Ids :
        (Ended(id) /\ requests[id] = "bad") =>
            /\ Returned(id)
            /\ processed[id] = "FAILED"
            /\ responses[id] # None
            /\ is_failed(responses[id])
            /\ id \notin scheduled
            /\ id \notin processing

\* C8: when process_work_order_by_id returns from an execution that did not
\* report failure, it returns the response, wo-processed[id] = SUCCESS,
\* wo-responses[id] is that response and the id is in neither wo-scheduled
\* nor wo-processing; and it returns a response only with
\* wo-processed[id] = SUCCESS.
C8_SuccessRecorded ==
    /\ (pc = "p_ret" /\ wo_resp # None /\ ~is_failed(wo_resp)) =>
          /\ ret = wo_resp
          /\ processed[cur] = "SUCCESS"
          /\ responses[cur] = wo_resp
          /\ cur \notin scheduled
          /\ cur \notin processing
    /\ (pc = "p_ret" /\ ret # None) =>
          /\ requests[cur] = "valid"
          /\ processed[cur] = "SUCCESS"
          /\ responses[cur] = ret

C8_Witness ==
    /\ pc = "p_ret"
    /\ requests[cur] = "valid"
    /\ ret = "ok"
    /\ processed[cur] = "SUCCESS"

\* ------------------------------------------------------------------------
\* Properties of the two driving loops
\* ------------------------------------------------------------------------

\* C13: in polling mode no failure of a single work order (a request that is
\* not JSON, an execution that fails) ends the loop, and when a sweep is
\* through, every id with a stored request has a terminal status, FAILED
\* when its request is not JSON.
C13_SweepContainsErrors ==
    ~sync =>
        /\ exc \notin {"NameError", "UnboundLocalError"}
        /\ (pc = "p_ret" /\ todo = <<>>) =>
              \A id \in Ids :
                  /\ requests[id] # None => processed[id] \in Terminal
                  /\ requests[id] = "bad" => processed[id] = "FAILED"

\* C14: process_work_order_sync(id) on an id that is in wo-scheduled with a
\* valid request never returns without having run process_work_order_by_id
\* on it, wherever the lookup lists the id.  (pc = "s_ret": the function has
\* returned None from its loop, the store untouched)
C14_SyncProcessesRequested ==
    pc = "s_ret" => ~(cur \in scheduled /\ requests[cur] = "valid")

\* the positions of the steady-state loops (after manager_on_boot returned)
SteadyState ==
    pc \in {"idle", "p_loop", "p_claim", "p_read", "p_absent", "p_unsched",
            "p_validate", "p_exec", "p_receipt", "p_processed", "p_response",
            "p_remove", "p_ret", "s_ret"}

\* C19: in the steady-state loop of the one manager, wo-processing holds at
\* most one id, the id being processed, and it is empty whenever an id is
\* about to be claimed and whenever process_work_order_by_id has returned.
C19_OneAtATime ==
    SteadyState =>
        /\ Cardinality(processing) <= 1
        /\ processing \subseteq {cur}
        /\ pc \in {"idle", "p_loop", "p_claim", "p_ret", "s_ret"} =>
              processing = {}

\* C19 witness: a second id of the sweep is claimed after the first one got
\* its status
C19_Witness ==
    /\ pc = "p_read"
    /\ ~sync
    /\ crashes = 0
    /\ processing = {cur}
    /\ \E id \in Ids \ {cur} : processed[id] \in Terminal


\* C15: in polling mode, with no crash and no store error, every id that is in
\* wo-scheduled with a stored request is eventually out of wo-scheduled with
\* wo-processed[id] SUCCESS or FAILED (unless the call into the enclave
\* itself raised).
C15_PollingProgress ==
    \A id \in Ids :
        (~sync /\ id \in scheduled /\ requests[id] # None)
            ~> \/ id \notin scheduled /\ processed[id] \in Terminal
               \/ exc = "UnboundLocalError"

\* C16: a store operation that fails inside process_work_order_by_id never
\* leaves the function as an exception, and when the function has returned,
\* wo-processing[id] is absent.
C16_StoreErrorContained ==
    /\ exc # "StoreError"
    /\ pc = "p_ret" => cur \notin processing


\* ------------------------------------------------------------------------
\* Properties of __update_receipt
\* ------------------------------------------------------------------------
HasCompleted(seq) == \E i \in 1..Len(seq) : seq[i].updateType = "COMPLETED"

\* C5: once wo-receipt-updates[id] holds a COMPLETED update, no step of
\* process_work_order_by_id or manager_on_boot changes the sequence.
C5_CompletedIsFrozen ==
    [][\A id \in Ids : HasCompleted(updates[id]) => updates'[id] = updates[id]]_vars

\* C5 witness: __update_receipt has run, with a response of the enclave, on
\* a receipt whose updates end with COMPLETED
C5_Witness ==
    /\ pc = "p_processed"
    /\ cur \in receipts
    /\ wo_resp \in ExecKinds
    /\ HasCompleted(updates[cur])

\* C6: every step leaves wo-receipt-updates[id] as it was, or appends exactly
\* one update at its end.
C6_AppendOnly ==
    [][\A id \in Ids :
          \/ updates'[id] = updates[id]
          \/ /\ Len(updates'[id]) = Len(updates[id]) + 1
             /\ SubSeq(updates'[id], 1, Len(updates[id])) = updates[id]]_vars

\* C6 witness: a second update was appended behind a first one
C6_Witness ==
    \E id \in Ids :
        /\ Len(updates[id]) = 2
        /\ updates[id][1].updateType # "COMPLETED"

\* ------------------------------------------------------------------------
\* Properties of manager_on_boot
\* ------------------------------------------------------------------------

\* C4: a second complete run of manager_on_boot, right after a first one,
\* leaves every table as the first run left it.
\* (pc = "idle" and boots = 2: two runs have returned with nothing processed
\* in between; snap: the store when the first of them returned)
C4_BootIdempotent == (pc = "idle" /\ boots = 2) => store = snap

\* C4 witness: the first run appended a receipt update and set a status, the
\* second run has returned
C4_Witness ==
    /\ pc = "idle"
    /\ boots = 2
    /\ \E id \in Ids :
          /\ Len(updates[id]) = 1
          /\ updates[id][1].updateType = "PROCESSED"
          /\ processed[id] = "SUCCESS"

\* C9: an id that is in wo-processing with no wo-responses entry when
\* manager_on_boot starts is in wo-scheduled and not in wo-processing when
\* it has returned.  (seed: the store when the run started)
C9_NoResponseRescheduled ==
    (pc = "idle" /\ boots >= 1) =>
        \A id \in Ids :
            (id \in seed[4] /\ seed[5][id] = None) =>
                id \in scheduled /\ id \notin processing

\* C9 witness: such an id, not scheduled when the run started
C9_Witness ==
    /\ boots >= 1
    /\ pc = "idle"
    /\ \E id \in Ids :
          /\ id \in seed[4]
          /\ seed[5][id] = None
          /\ id \notin seed[3]
          /\ id \in scheduled

\* ------------------------------------------------------------------------
\* Properties of _create_signup_data
\* ------------------------------------------------------------------------

\* C10: create_enclave_signup_data is called, and signup data returned, only
\* after get_unique_verification_key returned a response and
\* VerifyUniqueIdSignature returned 0 for the key that is used; when the KME
\* step returns None or the verification returns non-zero,
\* _create_signup_data returns None without calling it.
C10_SignupGated ==
    /\ (hs.created \/ hs.ret # None) =>
          /\ hs.created
          /\ hs.response # None
          /\ hs.verified
          /\ hs.result = 0
          /\ hs.used = hs.response[2]
          /\ hs.sig = SigOf(hs.used)
    /\ (hs.pc = "done" /\ hs.exc = "none"
            /\ (hs.response = None \/ (hs.verified /\ hs.result # 0))) =>
          /\ hs.ret = None
          /\ ~hs.created

C10_Witness ==
    /\ hs.pc = "done"
    /\ hs.created
    /\ hs.ret = "signup_data"

\* ------------------------------------------------------------------------
\* Properties of WPERequester
\* ------------------------------------------------------------------------

\* C11: in get_unique_verification_key and register_wo_processor the
\* response is decrypted, and a payload returned, only when the response
\* holds a result and verify_signature of that result returned PASSED; after
\* any other status the step has returned None and nothing was decrypted.
C11_DecodeFailsClosed ==
    /\ hs.decrypted => (hs.post = "result" /\ hs.status = "PASSED")
    /\ hs.response # None => hs.decrypted
    /\ (hs.pc \in {"returned", "done"} /\ hs.exc = "none"
            /\ hs.status \in SigStatuses \ {"PASSED"}) =>
          /\ hs.response = None
          /\ hs.ret = None
          /\ hs.reg_ret = None
          /\ ~hs.decrypted

\* C11 witness: register_wo_processor has returned None on a result whose
\* signature is invalid
C11_Witness ==
    /\ hs.pc = "done"
    /\ hs.nonce = None
    /\ hs.post = "result"
    /\ hs.status = "INVALID"
    /\ hs.reg_ret = None

\* C12: whatever the round trip gives (no response object, a response
\* without a result, an error object, a result whose data is not the
\* triple), get_unique_verification_key, register_wo_processor and
\* _create_signup_data end with None, and with no exception.
C12_NeverRaises ==
    (/\ hs.pc = "done"
     /\ \/ hs.post \in {"none", "error"}
        \/ hs.response # None /\ Len(hs.response) < 3 /\ hs.nonce # None) =>
        /\ hs.exc = "none"
        /\ hs.ret = None
        /\ hs.reg_ret = None


\* C17: when manager_on_boot was killed after any of its store writes, a run
\* from the store it left ends with the tables an uninterrupted run from the
\* store it started on ends with.  (pc = "exited", exc = "crash", boots = 0:
\* killed inside manager_on_boot; seed: the store that run started on)
C17_InterruptedBootConverges ==
    (/\ pc = "exited"
     /\ exc = "crash"
     /\ boots = 0
     /\ manager_on_boot_result(seed) # None) =>
        manager_on_boot_result(store) = manager_on_boot_result(seed)

\* C18: when manager_on_boot has returned, the workers table holds the
\* entry of this manager and nothing else, whatever it held before and
\* whether or not wo-processing was empty.
C18_OnlyOwnWorker ==
    (pc = "idle" /\ boots >= 1) => workers = {SelfWorker}

\* C18 witness: the run started with a stale entry and with ids in
\* wo-processing
C18_Witness ==
    /\ pc = "idle"
    /\ boots >= 1
    /\ StaleWorker \in seed[1]
    /\ seed[4] # {}
    /\ workers = {SelfWorker}


\* ------------------------------------------------------------------------
\* Two managers on one store
\* ------------------------------------------------------------------------

\* C20: the claim of an id is a plain write: whatever the other manager has
\* done to the id, a manager that is about to claim it sets the marker, with
\* no test of wo-processing or wo-scheduled and no change of wo-scheduled,
\* and goes on to read the request.  Hence both can hold the same id (the
\* witness).
C20_ClaimIsBlind ==
    [][/\ (pc = "p_claim" /\ pc' # "p_claim") =>
            /\ pc' = "p_read"
            /\ processing' = processing \cup {cur}
            /\ scheduled' = scheduled
       /\ (peer.pc = "p_claim" /\ peer'.pc # "p_claim") =>
            /\ peer'.pc = "p_read"
            /\ processing' = processing \cup {peer.cur}
            /\ scheduled' = scheduled]_vars

\* C20 witness: both managers have claimed and executed the same id, and
\* both have written its result
C20_Witness ==
    /\ pc = "p_remove"
    /\ peer.pc = "p_remove"
    /\ cur = peer.cur
    /\ wo_resp \in ExecKinds
    /\ peer.wo_resp \in ExecKinds
    /\ responses[cur] = wo_resp
    /\ wo_resp # peer.wo_resp


\* ------------------------------------------------------------------------
\* Session keys of WPERequester
\* ------------------------------------------------------------------------

\* C21: every request that get_unique_verification_key or
\* register_wo_processor posts carries the session key and IV generated in
\* that invocation, a response is decrypted with the key and IV of its own
\* invocation, and no two requests carry the same key or IV.
C21_SessionKeyPerRequest ==
    /\ \A i, j \in 1..Len(hs.sent) :
          i # j => (hs.sent[i][1] # hs.sent[j][1] /\ hs.sent[i][2] # hs.sent[j][2])
    /\ hs.post # None =>
          /\ hs.session = hs.sent[Len(hs.sent)]
          /\ hs.session = <<generate_key(hs.made), generate_iv(hs.made)>>
    /\ hs.decrypted => hs.dec_key = hs.session

\* C21 witness: a second request, register_wo_processor, has decrypted its
\* response
C21_Witness ==
    /\ Len(hs.sent) = 2
    /\ hs.pc = "done"
    /\ hs.reg_ret # None
    /\ hs.decrypted
    /\ hs.dec_key = hs.sent[2]


\* ------------------------------------------------------------------------
\* manager_on_boot, branch by branch.  seed is the store the run started
\* on: seed[3] wo-scheduled, seed[4] wo-processing, seed[5] wo-responses,
\* seed[6] wo-processed, seed[8] wo-receipt-updates.
\* ------------------------------------------------------------------------

\* C22: when manager_on_boot has returned, every id that was in
\* wo-processing with a response that is not JSON or that has Status FAILED
\* has wo-processed FAILED if it had no status and its old status otherwise,
\* is out of wo-processing, is in wo-scheduled only if it was before, and
\* has the receipt updates it had.
C22_FailedResponseReconciled ==
    (pc = "idle" /\ boots >= 1) =>
        \A id \in Ids :
            (id \in seed[4] /\ seed[5][id] \in {"bad", "failed"}) =>
                /\ processed[id] = IF seed[6][id] = None THEN "FAILED"
                                   ELSE seed[6][id]
                /\ id \notin processing
                /\ (id \in scheduled) <=> (id \in seed[3])
                /\ updates[id] = seed[8][id]

\* C22 witness: a malformed response beside a SUCCESS status and a receipt
C22_Witness ==
    /\ pc = "idle"
    /\ boots >= 1
    /\ \E id \in Ids :
          /\ id \in seed[4]
          /\ seed[5][id] = "bad"
          /\ seed[6][id] = "SUCCESS"
          /\ id \in receipts
          /\ processed[id] = "SUCCESS"

\* C23: manager_on_boot does not raise on an id in wo-processing whose
\* response is well-formed and not failed; when it has returned, such an id
\* with a receipt that is not frozen has exactly one more update, of type
\* FAILED for an error with a non-pending code and PROCESSED otherwise, its
\* status is SUCCESS if it had none and its old status otherwise, and it is
\* out of wo-processing.
C23_SuccessResponseReconciled ==
    /\ exc # "TypeError"
    /\ (pc = "idle" /\ boots >= 1) =>
          \A id \in Ids :
              (id \in seed[4] /\ seed[5][id] \in {"ok", "err", "pending"}) =>
                  /\ updates[id] =
                        IF id \in receipts /\ ~HasCompleted(seed[8][id])
                        THEN Append(seed[8][id],
                                    [updateType |-> IF seed[5][id] = "err"
                                                    THEN "FAILED"
                                                    ELSE "PROCESSED",
                                     data |-> seed[5][id]])
                        ELSE seed[8][id]
                  /\ processed[id] = IF seed[6][id] = None THEN "SUCCESS"
                                     ELSE seed[6][id]
                  /\ id \notin processing

\* C24 as claimed: when manager_on_boot has returned, an id that was in
\* wo-processing with no response is in wo-scheduled and still in
\* wo-processing.
C24_MarkerKept ==
    (pc = "idle" /\ boots >= 1) =>
        \A id \in Ids :
            (id \in seed[4] /\ seed[5][id] = None) =>
                id \in scheduled /\ id \in processing

\* C24 amended: manager_on_boot itself removes the marker of the id it has
\* put back into wo-scheduled, in the same iteration of its loop: after the
\* write of wo-scheduled[id] its next step removes wo-processing[id].
C24_MarkerRemovedByBoot ==
    /\ []((pc = "b_remove" /\ wo_json_resp = None) =>
              (cur \in scheduled /\ cur \in processing))
    /\ [][(pc = "b_remove" /\ pc' # "exited") =>
              (pc' = "b_next" /\ processing' = processing \ {cur})]_vars

\* C24 witness: the run has returned, the id is back in wo-scheduled and its
\* marker is gone
C24_Witness ==
    /\ pc = "idle"
    /\ boots >= 1
    /\ crashes = 0
    /\ \E id \in Ids :
          /\ id \in seed[4]
          /\ seed[5][id] = None
          /\ id \notin seed[3]
          /\ id \in scheduled
          /\ id \notin processing
          /\ processed[id] = seed[6][id]


\* ------------------------------------------------------------------------
\* C25: __update_receipt is a no-op when no receipt exists: for an id with
\* no wo-receipts entry the call leaves wo-receipt-updates as it is, for any
\* response, and the step of process_work_order_by_id that makes the call
\* changes no table of the store.
\* ------------------------------------------------------------------------
C25_NoReceiptNoUpdate ==
    /\ [](\A id \in Ids \ receipts :
              \A r \in ExecKinds : update_receipt(id, r) = updates)
    /\ [][(pc = "p_receipt" /\ cur \notin receipts) =>
              (pc' = "p_processed" /\ store' = store)]_vars

\* C25 witness: the call has been made for an error response of an id that
\* has no receipt, and its update list is still empty
C25_Witness ==
    /\ pc = "p_processed"
    /\ cur \notin receipts
    /\ wo_resp = "err"
    /\ updates[cur] = <<>>

\* ------------------------------------------------------------------------
\* C26: receipt update classification.  For a receipt that exists and whose
\* last update is not COMPLETED, __update_receipt appends one update: FAILED
\* exactly when the response carries an error whose code is not the pending
\* code, PROCESSED in every other case; the first update of an id gives a
\* one-element list; no other id's list changes.
\* ------------------------------------------------------------------------
Frozen(seq) == seq # <<>> /\ seq[Len(seq)].updateType = "COMPLETED"

C26_UpdateClassified ==
    [][(pc = "p_receipt" /\ pc' = "p_processed"
            /\ cur \in receipts /\ ~Frozen(updates[cur])) =>
          /\ updates'[cur] =
                Append(updates[cur],
                       [updateType |-> IF wo_resp = "err"
                                       THEN "FAILED" ELSE "PROCESSED",
                        data |-> wo_resp])
          /\ (updates[cur] = <<>> => Len(updates'[cur]) = 1)
          /\ \A id \in Ids \ {cur} : updates'[id] = updates[id]]_vars

\* C26 witness: a response with the pending error code has been recorded as
\* the first update of its receipt, with type PROCESSED
C26_Witness ==
    /\ pc = "p_processed"
    /\ cur \in receipts
    /\ wo_resp = "pending"
    /\ updates[cur] = <<[updateType |-> "PROCESSED", data |-> "pending"]>>

\* ------------------------------------------------------------------------
\* C27: execution failure is reflected in the receipt: when
\* process_work_order_by_id has recorded wo-processed[id] = FAILED for a
\* failure reported by the enclave, and the id has a receipt that was not
\* frozen, the last update of the receipt has type FAILED.
\* ------------------------------------------------------------------------
C27_FailureInReceipt ==
    (/\ pc \in {"p_response", "p_remove", "p_ret"}
     /\ wo_resp # None
     /\ is_failed(wo_resp)
     /\ processed[cur] = "FAILED"
     /\ cur \in receipts
     /\ ~HasCompleted(updates[cur])) =>
        /\ updates[cur] # <<>>
        /\ updates[cur][Len(updates[cur])].updateType = "FAILED"

\* ------------------------------------------------------------------------
\* C28: absent request.  When process_work_order_by_id runs on an id with no
\* wo-requests entry it returns None and leaves the store as it found it:
\* the marker it wrote to wo-processing is gone again, the id is still in
\* wo-scheduled, wo-processed, wo-responses and wo-receipt-updates are
\* untouched, and the enclave has not been invoked.
\* ------------------------------------------------------------------------
C28_AbsentRequestFrame ==
    /\ [](pc = "p_claim" => cur \notin processing)
    /\ []((pc = "p_ret" /\ requests[cur] = None) =>
              /\ ret = None
              /\ wo_resp = None
              /\ cur \notin processing
              /\ cur \in scheduled)
    /\ [][(pc \in {"p_claim", "p_read", "p_absent"} /\ requests[cur] = None) =>
              /\ pc' \in {"p_read", "p_absent", "p_ret"}
              /\ UNCHANGED <<workers, requests, scheduled, responses,
                             processed, receipts, updates>>
              /\ processing' \ {cur} = processing \ {cur}]_vars

\* C28 witness: the call has returned for a scheduled id without a request
C28_Witness ==
    /\ pc = "p_ret"
    /\ requests[cur] = None
    /\ cur \in scheduled
    /\ cur \notin processing
    /\ ret = None


\* ------------------------------------------------------------------------
\* C29: receipt updates are idempotent across recovery: when
\* process_work_order_by_id has appended the update for a response and the
\* process died before wo-processing[id] was removed, manager_on_boot does
\* not append a second update for that response.
\* ------------------------------------------------------------------------
C29_NoSecondUpdate ==
    [][(/\ pc = "b_receipt"
        /\ \E i \in 1..Len(updates[cur]) :
              updates[cur][i].data = wo_json_resp) =>
          updates' = updates]_vars

\* ------------------------------------------------------------------------
\* C30: terminal status is stable: once wo-processed[id] holds SUCCESS or
\* FAILED no step of the manager, of a crash or of the recovery changes it.
\* ------------------------------------------------------------------------
C30_TerminalStatusStable ==
    [][\A id \in Ids :
          processed[id] \in Terminal => processed'[id] = processed[id]]_vars


\* ------------------------------------------------------------------------
\* C31: consistency at rest.  Whenever process_work_order_by_id has returned
\* or manager_on_boot has completed, a terminal wo-processed[id] comes with
\* a stored response and with id out of wo-scheduled.
\* ------------------------------------------------------------------------
C31_ConsistentAtRest ==
    (pc \in {"idle", "p_ret"}) =>
        \A id \in Ids :
            processed[id] \in Terminal =>
                (responses[id] # None /\ id \notin scheduled)

\* ------------------------------------------------------------------------
\* C32: status and receipt agree on success.  When
\* process_work_order_by_id has set wo-processed[id] = SUCCESS and the id
\* has a receipt that was not frozen, the update appended by the invocation
\* has type PROCESSED.
\* ------------------------------------------------------------------------
C32_SuccessAgreesWithReceipt ==
    (/\ pc \in {"p_response", "p_remove", "p_ret"}
     /\ wo_resp # None
     /\ processed[cur] = "SUCCESS"
     /\ cur \in receipts
     /\ ~HasCompleted(updates[cur])) =>
        /\ updates[cur] # <<>>
        /\ updates[cur][Len(updates[cur])].updateType = "PROCESSED"


\* ------------------------------------------------------------------------
\* start_enclave_manager run under a supervisor: whatever can happen next
\* eventually does, so a manager that has exited is started again
\* ------------------------------------------------------------------------
SpecRestart == Init /\ [][Next]_vars /\ WF_vars(Next)

\* ------------------------------------------------------------------------
\* C33: progress across restarts.  With the manager started again after
\* every crash and every fatal exit, a polling manager gives the only
\* scheduled id, whose stored request is malformed, a terminal wo-processed
\* status in the end.
\* ------------------------------------------------------------------------
C33_ProgressAcrossRestarts ==
    \A id \in Ids :
        (~sync /\ scheduled = {id} /\ requests[id] = "bad")
            ~> (processed[id] \in Terminal)

=============================================================================
